---------------------------- MODULE Spec2Model ----------------------------
(***************************************************************************)
(* A model of vidp_alert.py: the ATFM-measures watcher that lists the PDF  *)
(* links of a web page, downloads the ones it has not seen, extracts the   *)
(* callsigns found near the marker VIDP, mails them, and records the       *)
(* documents it has processed in seen.json.                                *)
(*                                                                         *)
(* Three specifications share the variables:                               *)
(*   Spec         a sequence of runs of main()                             *)
(*   SpecExtract  extract_callsigns_from_pdf_bytes on bounded documents    *)
(*   SpecStore    load_seen / save_seen on bounded stores                  *)
(***************************************************************************)
EXTENDS Integers, Sequences, FiniteSets, TLC

VARIABLES
    store,        \* seen.json on disk: [kind, items]
    pc,           \* position of the run: "idle", "loop", "main", "exited"
    runs,         \* number of runs started so far
    creds,        \* EMAIL_USERNAME, EMAIL_PASSWORD and EMAIL_TO are all set
    seen,         \* process_new_pdfs: seen
    new_seen,     \* process_new_pdfs: new_seen
    found_alerts, \* process_new_pdfs: found_alerts, a sequence of [url, calls]
    pdfs,         \* process_new_pdfs: pdfs, the listing of this run
    idx,          \* position of the for loop in pdfs
    requested,    \* URLs this run issued a document GET for
    extracted,    \* URLs whose bytes this run passed to the extractor
    failed,       \* URLs whose download failed in this run
    unparsable,   \* URLs whose bytes made the extractor raise in this run
    matched,      \* URLs whose extraction returned at least one callsign
    writes,       \* number of save_seen calls of this run
    store0,       \* seen.json as it was when this run started
    handed,       \* bodies handed to send_email in this run
    delivered,    \* bodies send_message transmitted in this run
    exit,         \* "none", "normal", "abnormal"
    cause,        \* what raised out of main: "none", "listing", "extract", "smtp"
    doc,          \* SpecExtract: the document given to the extractor
    callsigns,    \* SpecExtract: the extractor's result
    epc,          \* SpecExtract: "start", "returned", "raised"
    copy,         \* SpecExtract: which copy of the script runs: "root", "workflow"
    sarg,         \* SpecStore: the set last given to save_seen
    sret,         \* SpecStore: the set last returned by load_seen
    sprev,        \* SpecStore: the store before the last operation
    spc           \* SpecStore: "start", "saved", "saved_loaded", "loaded", "resaved"

runVars == <<store, pc, runs, creds, seen, new_seen, found_alerts, pdfs, idx,
             requested, extracted, failed, unparsable, matched, writes, store0,
             handed,
             delivered, exit, cause>>
extractVars == <<doc, callsigns, epc, copy>>
storeVars == <<sarg, sret, sprev, spc>>
vars == <<runVars, extractVars, storeVars>>

---------------------------------------------------------------------------
(* Bounds *)

NumUrls == 3        \* distinct document URLs the site may list
MaxLinks == 2       \* <a href> PDF links on the listing page
MaxRuns == 2        \* runs of main() in a behaviour
MaxLines == 4       \* lines of text in a document
MaxPages == 2       \* pages in a document
MaxItems == 3       \* entries of a seen.json found on disk

\* URLs are numbered in their lexicographic order as strings.
URLs == 1..NumUrls

---------------------------------------------------------------------------
(* Characters and the two regular expressions of the extractor *)

UpperLetters == {"A","B","C","D","E","F","G","H","I","J","K","L","M",
                 "N","O","P","Q","R","S","T","U","V","W","X","Y","Z"}
LowerLetters == {"a","b","c","d","e","f","g","h","i","j","k","l","m",
                 "n","o","p","q","r","s","t","u","v","w","x","y","z"}
Digits == {"0","1","2","3","4","5","6","7","8","9"}

LowerSeq == <<"a","b","c","d","e","f","g","h","i","j","k","l","m",
              "n","o","p","q","r","s","t","u","v","w","x","y","z">>
UpperSeq == <<"A","B","C","D","E","F","G","H","I","J","K","L","M",
              "N","O","P","Q","R","S","T","U","V","W","X","Y","Z">>

\* str.upper() on one character
UpperChar(c) ==
    IF c \in LowerLetters
    THEN UpperSeq[CHOOSE k \in 1..26 : LowerSeq[k] = c]
    ELSE c

\* str.upper()
Upper(s) == [k \in 1..Len(s) |-> UpperChar(s[k])]

\* \w of the re module
IsWordChar(c) == c \in UpperLetters \cup LowerLetters \cup Digits \cup {"_"}

\* \b at position p of s: between s[p-1] and s[p]
Boundary(s, p) ==
    LET before == p > 1 /\ p - 1 <= Len(s) /\ IsWordChar(s[p - 1])
        after == p >= 1 /\ p <= Len(s) /\ IsWordChar(s[p])
    IN before # after

\* "VIDP" in s
Marker == <<"V","I","D","P">>
Contains(s, sub) ==
    \E k \in 1..(Len(s) - Len(sub) + 1) : SubSeq(s, k, k + Len(sub) - 1) = sub

\* pattern_callsign = \b([A-Z]{2,3}\d{2,4}[A-Z]?)\b, by its quantifiers
pattern_callsign == [lmin |-> 2, lmax |-> 3, dmin |-> 2, dmax |-> 4, tail |-> 1]

\* CALLSIGN_RE = \b([A-Z]{2,4}\d{1,4})\b
CALLSIGN_RE == [lmin |-> 2, lmax |-> 4, dmin |-> 1, dmax |-> 4, tail |-> 0]

\* the pattern matches s[p .. p+nl+nd+o-1] with nl letters, nd digits, o letters
Fits(s, p, nl, nd, o) ==
    /\ p + nl + nd + o - 1 <= Len(s)
    /\ Boundary(s, p)
    /\ \A k \in p..(p + nl - 1) : s[k] \in UpperLetters
    /\ \A k \in (p + nl)..(p + nl + nd - 1) : s[k] \in Digits
    /\ \A k \in (p + nl + nd)..(p + nl + nd + o - 1) : s[k] \in UpperLetters
    /\ Boundary(s, p + nl + nd + o)

\* length of the pattern's match at p, 0 when there is none; the quantifiers
\* are greedy, so the first alternative that fits is the longest
MatchLen(s, p, pat) ==
    LET cands == {c \in (pat.lmin..pat.lmax) \X (pat.dmin..pat.dmax) \X (0..pat.tail) :
                     Fits(s, p, c[1], c[2], c[3])}
        key(c) == c[1] * 100 + c[2] * 10 + c[3]
    IN IF cands = {} THEN 0
       ELSE LET best == CHOOSE c \in cands : \A d \in cands : key(d) <= key(c)
            IN best[1] + best[2] + best[3]

\* pat.findall(s), scanning from position p
RECURSIVE FindAllFrom(_, _, _)
FindAllFrom(s, p, pat) ==
    IF p > Len(s) THEN <<>>
    ELSE LET n == MatchLen(s, p, pat)
         IN IF n > 0
            THEN <<SubSeq(s, p, p + n - 1)>> \o FindAllFrom(s, p + n, pat)
            ELSE FindAllFrom(s, p + 1, pat)

FindAll(s, pat) == FindAllFrom(s, 1, pat)

\* " ".join(ls)
RECURSIVE Join(_)
Join(ls) ==
    IF ls = <<>> THEN <<>>
    ELSE IF Len(ls) = 1 THEN ls[1]
    ELSE ls[1] \o <<" ">> \o Join(Tail(ls))

Max(a, b) == IF a >= b THEN a ELSE b
Min(a, b) == IF a <= b THEN a ELSE b
Range(s) == {s[k] : k \in 1..Len(s)}

\* lines[max(0, i-2): min(len(lines), i+3)] joined, for the 1-based line i
WindowRadius == 2
Window(lines, i) ==
    Join(SubSeq(lines, Max(1, i - WindowRadius), Min(Len(lines), i + WindowRadius)))

\* the test that opens a window on a line
HasMarker(line) == Contains(Upper(line), Marker)

\* the callsigns one page contributes
PageCallsigns(lines) ==
    UNION {Range(FindAll(Window(lines, i), pattern_callsign)) :
             i \in {k \in 1..Len(lines) : HasMarker(lines[k])}}

\* fitz.open raises on bytes that are no PDF
ExtractRaises(d) == ~d.pdf

\* extract_callsigns_from_pdf_bytes on a well-formed document: the set whose
\* list() is returned
extract_callsigns_from_pdf_bytes(d) ==
    UNION {PageCallsigns(d.pages[p]) : p \in 1..Len(d.pages)}

\* line.split(): the runs of characters between blanks, from position p, the
\* run in progress being w
RECURSIVE SplitFrom(_, _, _)
SplitFrom(s, p, w) ==
    IF p > Len(s) THEN (IF w = <<>> THEN <<>> ELSE <<w>>)
    ELSE IF s[p] # " " THEN SplitFrom(s, p + 1, Append(w, s[p]))
    ELSE (IF w = <<>> THEN <<>> ELSE <<w>>) \o SplitFrom(s, p + 1, <<>>)

Split(s) == SplitFrom(s, 1, <<>>)

\* CALLSIGN_RE.search(part.upper()): the first match, if any
SearchIn(part) ==
    LET ms == FindAll(Upper(part), CALLSIGN_RE)
    IN IF ms = <<>> THEN {} ELSE {ms[1]}

\* the workflow copy's fallback: the words left and right of a word VIDP
NeighbourTokens(line) ==
    LET parts == Split(line)
    IN UNION {(IF i - 1 >= 1 THEN SearchIn(parts[i - 1]) ELSE {}) \cup
              (IF i + 1 <= Len(parts) THEN SearchIn(parts[i + 1]) ELSE {}) :
                 i \in {k \in 1..Len(parts) : Upper(parts[k]) = Marker}}

\* the workflow copy: what one line contributes
LineTokens(line) ==
    IF ~HasMarker(line) THEN {}
    ELSE LET tokens == FindAll(Upper(line), CALLSIGN_RE)
         IN IF tokens # <<>> THEN Range(tokens) ELSE NeighbourTokens(line)

\* extract_callsigns_from_pdf_bytes of the workflow copy: the members of the
\* de-duplicated list it returns
extract_callsigns_workflow(d) ==
    UNION {UNION {LineTokens(d.pages[p][i]) : i \in 1..Len(d.pages[p])} :
             p \in 1..Len(d.pages)}

---------------------------------------------------------------------------
(* Documents *)

LnMarker == <<"V","I","D","P">>
LnSubstring == <<"A","V","I","D","P","O","R","T">>
LnCallsign == <<"D","A","L","1","2","3">>
LnOneDigit == <<"A","I","1">>
LnProse == <<"N","O"," ","D","L","Y">>
LnBoth == <<"V","I","D","P"," ","A","B","1","2","C">>

LnSubstringBoth == <<"A","V","I","D","P","O","R","T"," ","A","I","1","2">>

LineSet == {LnMarker, LnSubstring, LnCallsign, LnOneDigit, LnProse, LnBoth,
            LnSubstringBoth}

\* the pages of text of at most n lines
PagesUpTo(n) == UNION {[1..k -> LineSet] : k \in 1..n}

\* the sequences of at most p pages holding at most n lines together
RECURSIVE PageSeqs(_, _)
PageSeqs(p, n) ==
    IF p = 0 \/ n = 0 THEN {<<>>}
    ELSE {<<>>} \cup
         UNION {{<<pg>> \o rest : rest \in PageSeqs(p - 1, n - Len(pg))} :
                  pg \in PagesUpTo(n)}

NotPdf == [pdf |-> FALSE, pages |-> <<>>]
Pdf(pages) == [pdf |-> TRUE, pages |-> pages]

\* the documents of at most p pages and n lines, and the bytes that are no PDF
Docs(p, n) == {NotPdf} \cup {Pdf(ps) : ps \in PageSeqs(p, n)}

\* the documents the site serves in the runs of Spec
DocAlert == Pdf(<<<<LnBoth, LnCallsign>>>>)
DocNoMarker == Pdf(<<<<LnProse, LnCallsign>>>>)
RunDocs == {NotPdf, DocAlert, DocNoMarker}

\* list(callsigns): the orders in which a set may be listed
ListsOf(S) ==
    {s \in [1..Cardinality(S) -> S] : \A a, b \in 1..Cardinality(S) : s[a] = s[b] => a = b}

---------------------------------------------------------------------------
(* Seen-Set store *)

Missing == [kind |-> "missing", items |-> <<>>]
Corrupt == [kind |-> "corrupt", items |-> <<>>]
JsonList(items) == [kind |-> "list", items |-> items]

\* sorted(list(S))
RECURSIVE Sorted(_)
Sorted(S) ==
    IF S = {} THEN <<>>
    ELSE LET m == CHOOSE x \in S : \A y \in S : x <= y
         IN <<m>> \o Sorted(S \ {m})

\* what a call returns or raises
Returns(v) == [raised |-> FALSE, value |-> v]
Raises == [raised |-> TRUE, value |-> {}]

\* json.load(f) raises on a file that is no JSON
JsonLoadRaises(st) == st.kind = "corrupt"

\* load_seen() without its try/except
load_seen_uncaught(st) ==
    IF st.kind = "missing" THEN Returns({})
    ELSE IF JsonLoadRaises(st) THEN Raises
    ELSE Returns(Range(st.items))

\* load_seen(): the set of the stored JSON array, the empty set when the file
\* is absent or json.load raises
load_seen(st) ==
    IF st.kind = "missing" THEN Returns({})
    ELSE IF JsonLoadRaises(st) THEN Returns({})
    ELSE Returns(Range(st.items))

\* save_seen(seen): the file it leaves
save_seen(S) == JsonList(Sorted(S))

\* find_pdf_links: keep order and unique
RECURSIVE Ordered(_, _)
Ordered(links, acc) ==
    IF links = <<>> THEN acc
    ELSE IF Head(links) \in Range(acc)
         THEN Ordered(Tail(links), acc)
         ELSE Ordered(Tail(links), Append(acc, Head(links)))

find_pdf_links(links) == Ordered(links, <<>>)

\* the hrefs ending in .pdf that the listing page may hold
RawLinks == UNION {[1..k -> URLs] : k \in 0..MaxLinks}

---------------------------------------------------------------------------
(* SpecExtract: the extractor on bounded documents *)

\* the run's variables before any run
RunNotStarted ==
    /\ pc = "idle" /\ runs = 0 /\ creds = FALSE
    /\ seen = {} /\ new_seen = {} /\ found_alerts = <<>> /\ pdfs = <<>>
    /\ idx = 1 /\ requested = {} /\ extracted = {} /\ failed = {}
    /\ unparsable = {} /\ matched = {} /\ writes = 0 /\ store0 = store
    /\ handed = <<>> /\ delivered = <<>> /\ exit = "none" /\ cause = "none"

RunIdle == store = Missing /\ RunNotStarted

ExtractIdle == doc = NotPdf /\ callsigns = {} /\ epc = "start" /\ copy = "root"

StoreIdle == sarg = {} /\ sret = Returns({}) /\ sprev = Missing /\ spc = "start"

InitExtract ==
    /\ doc \in Docs(MaxPages, MaxLines)
    /\ copy \in {"root", "workflow"}
    /\ callsigns = {}
    /\ epc = "start"
    /\ RunIdle
    /\ StoreIdle

\* src/vidp_alert.py returns the callsigns of the +-2-line windows
ExtractReturns ==
    /\ epc = "start"
    /\ copy = "root"
    /\ ~ExtractRaises(doc)
    /\ callsigns' = extract_callsigns_from_pdf_bytes(doc)
    /\ epc' = "returned"
    /\ UNCHANGED <<doc, copy, runVars, storeVars>>

\* the workflow copy returns the tokens of the marker lines
ExtractReturnsWorkflow ==
    /\ epc = "start"
    /\ copy = "workflow"
    /\ ~ExtractRaises(doc)
    /\ callsigns' = extract_callsigns_workflow(doc)
    /\ epc' = "returned"
    /\ UNCHANGED <<doc, copy, runVars, storeVars>>

\* fitz.open raises in either copy
ExtractFails ==
    /\ epc = "start"
    /\ ExtractRaises(doc)
    /\ epc' = "raised"
    /\ UNCHANGED <<doc, copy, callsigns, runVars, storeVars>>

NextExtract == ExtractReturns \/ ExtractReturnsWorkflow \/ ExtractFails

SpecExtract == InitExtract /\ [][NextExtract]_vars


---------------------------------------------------------------------------
(* Spec: runs of main() *)

\* seen.json as a run may find it: absent, damaged, or as save_seen left it
StoresWritten == {Missing, Corrupt} \cup {save_seen(S) : S \in SUBSET URLs}

\* the lines main() composes for the alerts
BodyLine(kind, url, call) == [kind |-> kind, url |-> url, call |-> call]

RECURSIVE CallLines(_)
CallLines(calls) ==
    IF calls = <<>> THEN <<>>
    ELSE <<BodyLine("call", 0, Head(calls))>> \o CallLines(Tail(calls))

RECURSIVE ComposeBody(_)
ComposeBody(alerts) ==
    IF alerts = <<>> THEN <<>>
    ELSE <<BodyLine("pdf", Head(alerts).url, <<>>), BodyLine("header", 0, <<>>)>>
         \o CallLines(Head(alerts).calls)
         \o <<BodyLine("blank", 0, <<>>)>>
         \o ComposeBody(Tail(alerts))

\* the message main() hands to send_email
Message(alerts) == [subject |-> Len(alerts), body |-> ComposeBody(alerts)]

\* if pdf_url in seen: continue
IsNewAlways(url, s) == TRUE
IsNew(url, s) == url \notin s

\* new_seen.add(pdf_url)
MarkSeenOnly(ns, url) == {url}
MarkSeen(ns, url) == ns \cup {url}

\* if callsigns: found_alerts.append((pdf_url, callsigns))
RecordAlert(alerts, url, calls) ==
    IF calls # <<>> THEN Append(alerts, [url |-> url, calls |-> calls]) ELSE alerts

InitRun == store \in StoresWritten /\ RunNotStarted

Init == InitRun /\ ExtractIdle /\ StoreIdle

\* what the start of a run resets, with the process's environment
Begin(c) ==
    /\ pc \in {"idle", "exited"}
    /\ runs < MaxRuns
    /\ runs' = runs + 1
    /\ creds' = c
    /\ seen' = load_seen(store).value
    /\ new_seen' = load_seen(store).value
    /\ found_alerts' = <<>>
    /\ idx' = 1
    /\ requested' = {} /\ extracted' = {} /\ failed' = {}
    /\ unparsable' = {} /\ matched' = {}
    /\ writes' = 0 /\ store0' = store
    /\ handed' = <<>> /\ delivered' = <<>>
    /\ UNCHANGED store

\* find_pdf_links raises: the listing cannot be fetched
ListingFails ==
    \E c \in BOOLEAN :
        /\ Begin(c)
        /\ pdfs' = <<>>
        /\ pc' = "exited" /\ exit' = "abnormal" /\ cause' = "listing"
        /\ UNCHANGED <<extractVars, storeVars>>

\* load_seen, then find_pdf_links returns the listing
ListingFetched ==
    \E c \in BOOLEAN, links \in RawLinks :
        /\ Begin(c)
        /\ pdfs' = find_pdf_links(links)
        /\ pc' = "loop" /\ exit' = "none" /\ cause' = "none"
        /\ UNCHANGED <<extractVars, storeVars>>

InLoop == pc = "loop" /\ idx <= Len(pdfs)

\* the loop passes over a document that is in seen
SkipSeen ==
    /\ InLoop
    /\ ~IsNew(pdfs[idx], seen)
    /\ idx' = idx + 1
    /\ UNCHANGED <<store, pc, runs, creds, seen, new_seen, found_alerts, pdfs,
                   requested, extracted, failed, unparsable, matched, writes,
                   store0, handed, delivered, exit, cause, extractVars, storeVars>>

\* requests.get or raise_for_status raises: print and continue
DownloadFails ==
    /\ InLoop
    /\ IsNew(pdfs[idx], seen)
    /\ requested' = requested \cup {pdfs[idx]}
    /\ failed' = failed \cup {pdfs[idx]}
    /\ idx' = idx + 1
    /\ UNCHANGED <<store, pc, runs, creds, seen, new_seen, found_alerts, pdfs,
                   extracted, unparsable, matched, writes,
                   store0, handed, delivered, exit, cause, extractVars, storeVars>>

\* the extractor raises on the downloaded bytes; nothing catches it
ExtractionRaises ==
    /\ InLoop
    /\ IsNew(pdfs[idx], seen)
    /\ \E d \in RunDocs : ExtractRaises(d)
    /\ requested' = requested \cup {pdfs[idx]}
    /\ extracted' = extracted \cup {pdfs[idx]}
    /\ unparsable' = unparsable \cup {pdfs[idx]}
    /\ pc' = "exited" /\ exit' = "abnormal" /\ cause' = "extract"
    /\ UNCHANGED <<store, runs, creds, seen, new_seen, found_alerts, pdfs, idx,
                   failed, matched, writes,
                   store0, handed, delivered, extractVars, storeVars>>

\* the document is downloaded and extracted, and marked seen
DocumentProcessed ==
    /\ InLoop
    /\ IsNew(pdfs[idx], seen)
    /\ \E d \in RunDocs :
        /\ ~ExtractRaises(d)
        /\ \E calls \in ListsOf(extract_callsigns_from_pdf_bytes(d)) :
            /\ found_alerts' = RecordAlert(found_alerts, pdfs[idx], calls)
            /\ matched' = IF calls # <<>> THEN matched \cup {pdfs[idx]} ELSE matched
    /\ requested' = requested \cup {pdfs[idx]}
    /\ extracted' = extracted \cup {pdfs[idx]}
    /\ new_seen' = MarkSeen(new_seen, pdfs[idx])
    /\ idx' = idx + 1
    /\ UNCHANGED <<store, pc, runs, creds, seen, pdfs, failed, unparsable, writes,
                   store0, handed, delivered, exit, cause, extractVars, storeVars>>

\* the loop is over: save_seen(new_seen); return found_alerts
SaveSeen ==
    /\ pc = "loop"
    /\ idx > Len(pdfs)
    /\ store' = save_seen(new_seen)
    /\ writes' = writes + 1
    /\ pc' = "main"
    /\ UNCHANGED <<runs, creds, seen, new_seen, found_alerts, pdfs, idx,
                   requested, extracted, failed, unparsable, matched,
                   store0, handed, delivered, exit, cause, extractVars, storeVars>>

\* main: if not alerts: return
MainNoAlerts ==
    /\ pc = "main"
    /\ found_alerts = <<>>
    /\ pc' = "exited" /\ exit' = "normal"
    /\ UNCHANGED <<store, runs, creds, seen, new_seen, found_alerts, pdfs, idx,
                   requested, extracted, failed, unparsable, matched, writes,
                   store0, handed, delivered, cause, extractVars, storeVars>>

\* main composes the body; send_email returns at once for want of credentials
EmailSkipped ==
    /\ pc = "main"
    /\ found_alerts # <<>>
    /\ ~creds
    /\ handed' = Append(handed, Message(found_alerts))
    /\ pc' = "exited" /\ exit' = "normal"
    /\ UNCHANGED <<store, runs, creds, seen, new_seen, found_alerts, pdfs, idx,
                   requested, extracted, failed, unparsable, matched, writes,
                   store0, delivered, cause, extractVars, storeVars>>

\* main composes the body; send_email transmits it
EmailSent ==
    /\ pc = "main"
    /\ found_alerts # <<>>
    /\ creds
    /\ handed' = Append(handed, Message(found_alerts))
    /\ delivered' = Append(delivered, Message(found_alerts))
    /\ pc' = "exited" /\ exit' = "normal"
    /\ UNCHANGED <<store, runs, creds, seen, new_seen, found_alerts, pdfs, idx,
                   requested, extracted, failed, unparsable, matched, writes,
                   store0, cause, extractVars, storeVars>>

\* main composes the body; SMTP(), starttls, login or send_message raises
EmailFails ==
    /\ pc = "main"
    /\ found_alerts # <<>>
    /\ creds
    /\ handed' = Append(handed, Message(found_alerts))
    /\ pc' = "exited" /\ exit' = "abnormal" /\ cause' = "smtp"
    /\ UNCHANGED <<store, runs, creds, seen, new_seen, found_alerts, pdfs, idx,
                   requested, extracted, failed, unparsable, matched, writes,
                   store0, delivered, extractVars, storeVars>>

Next ==
    \/ ListingFails
    \/ ListingFetched
    \/ SkipSeen
    \/ DownloadFails
    \/ ExtractionRaises
    \/ DocumentProcessed
    \/ SaveSeen
    \/ MainNoAlerts
    \/ EmailSkipped
    \/ EmailSent
    \/ EmailFails

Spec == Init /\ [][Next]_vars


---------------------------------------------------------------------------
(* SpecStore: load_seen and save_seen on the stores a run may find *)

\* seen.json as anyone may have left it: absent, damaged, or a JSON array of
\* URL strings in any order, repeats included
StoresOnDisk ==
    {Missing, Corrupt} \cup
    {JsonList(items) : items \in UNION {[1..k -> URLs] : k \in 0..MaxItems}}

InitStore ==
    /\ store \in StoresOnDisk
    /\ RunNotStarted
    /\ ExtractIdle
    /\ sarg = {} /\ sret = Returns({}) /\ sprev = store /\ spc = "start"

runVarsButStore == <<pc, runs, creds, seen, new_seen, found_alerts, pdfs, idx,
                     requested, extracted, failed, unparsable, matched, writes,
                     store0, handed, delivered, exit, cause>>

\* save_seen(S) for any set S of URLs
StoreSave ==
    /\ spc = "start"
    /\ \E S \in SUBSET URLs :
        /\ sarg' = S
        /\ store' = save_seen(S)
    /\ sprev' = store
    /\ spc' = "saved"
    /\ UNCHANGED <<sret, runVarsButStore, extractVars>>

\* load_seen() after that save_seen(S)
StoreLoadSaved ==
    /\ spc = "saved"
    /\ sret' = load_seen(store)
    /\ spc' = "saved_loaded"
    /\ UNCHANGED <<store, sarg, sprev, runVarsButStore, extractVars>>

\* load_seen() on the store as found
StoreLoad ==
    /\ spc = "start"
    /\ sret' = load_seen(store)
    /\ spc' = "loaded"
    /\ UNCHANGED <<store, sarg, sprev, runVarsButStore, extractVars>>

\* save_seen(load_seen())
StoreResave ==
    /\ spc = "loaded"
    /\ ~sret.raised
    /\ sarg' = sret.value
    /\ store' = save_seen(sret.value)
    /\ sprev' = store
    /\ spc' = "resaved"
    /\ UNCHANGED <<sret, runVarsButStore, extractVars>>

NextStore == StoreSave \/ StoreLoadSaved \/ StoreLoad \/ StoreResave

SpecStore == InitStore /\ [][NextStore]_vars


---------------------------------------------------------------------------
(* Properties of the runs *)

\* the set seen.json holds, read off the file
Stored(st) == IF st.kind = "list" THEN {st.items[k] : k \in DOMAIN st.items} ELSE {}

\* the documents of the alert records, in order
AlertUrls(alerts) == [k \in 1..Len(alerts) |-> alerts[k].url]

\* the documents a body names, in order
BodyDocs(body) == LET ps == SelectSeq(body, LAMBDA l : l.kind = "pdf")
                  IN [k \in 1..Len(ps) |-> ps[k].url]

HasAlert(u) == \E k \in 1..Len(found_alerts) : found_alerts[k].url = u

\* the position of u in the listing
PosIn(s, u) == CHOOSE k \in 1..Len(s) : s[k] = u

\* C1: every new document whose download fails is in the Seen Set the run
\* persists, no alert is produced for it, and the run completes normally.
C1_FailedDownloadMarkedSeen ==
    \A u \in failed :
        /\ ~HasAlert(u)
        /\ writes = 1 => u \in Stored(store)
        /\ pc = "exited" => exit = "normal" /\ writes = 1

\* C2: a document whose bytes make the extractor raise is treated as having
\* no callsigns: no alert for it, the run goes on with the later documents,
\* and the document is in the Seen Set the run persists.
C2_ParseFailureTolerated ==
    \A u \in unparsable :
        /\ ~HasAlert(u)
        /\ cause # "extract"
        /\ pc = "exited" => writes = 1 /\ u \in Stored(store)

\* C3: the Seen Set is written at most once in a run and only
\* after the Notifier has run, so the file never holds a document of this run
\* whose alert has not been handed to the Notifier.
C3_SavedAfterNotifier ==
    /\ writes <= 1
    /\ \A k \in 1..Len(found_alerts) :
          found_alerts[k].url \in Stored(store) => handed # <<>>

\* What the code does instead: no write happens while documents are
\* processed; a run that ends in the listing fetch or in the extractor has
\* written nothing and left the file as it was; every other run has written
\* new_seen exactly once, and send_email is only ever called after that write.
SavedBeforeNotifier ==
    /\ writes <= 1
    /\ pc = "loop" => writes = 0 /\ store = store0
    /\ pc = "main" => writes = 1 /\ handed = <<>>
    /\ handed # <<>> => writes = 1
    /\ writes = 1 => Stored(store) = new_seen
    /\ (pc = "exited" /\ cause \in {"listing", "extract"}) => writes = 0 /\ store = store0
    /\ (pc = "exited" /\ cause \in {"none", "smtp"}) => writes = 1

\* C4: whatever the credentials and whatever the SMTP exchange does, a run
\* that reached send_email ends normally with the Seen Set persisted.
C4_EmailFailureContained ==
    (pc = "exited" /\ handed # <<>>) =>
        exit = "normal" /\ cause = "none" /\ writes = 1

\* C5: a listed document that is in the Seen Set loaded at the start of the
\* run is not requested, not given to the extractor and gets no alert.
C5_SeenNotReprocessed ==
    \A u \in Stored(store0) :
        /\ u \notin requested
        /\ u \notin extracted
        /\ ~HasAlert(u)

\* the second run has passed over a listed document the first run recorded,
\* and has downloaded another
C5_Witness ==
    /\ runs = 2
    /\ \E u \in Stored(store0) :
          /\ u \in Range(pdfs)
          /\ idx > PosIn(pdfs, u)
    /\ extracted # {}

\* C6: an alert record exists exactly for the new, downloaded documents whose
\* extraction returned a callsign; at most one message is handed to the
\* Notifier in a run; a finished run has handed one exactly when it has an
\* alert record; and the message names the alert records' documents, in the
\* order of the listing, and no other.
C6_OneEmailIffAlerts ==
    /\ \A u \in URLs : HasAlert(u) <=> (u \in matched /\ u \in extracted /\ u \notin seen)
    /\ Len(handed) <= 1
    /\ pc = "exited" => (handed # <<>> <=> found_alerts # <<>>)
    /\ handed # <<>> =>
          /\ BodyDocs(handed[1].body) = AlertUrls(found_alerts)
          /\ \A a, b \in 1..Len(found_alerts) :
                a < b => PosIn(pdfs, found_alerts[a].url) < PosIn(pdfs, found_alerts[b].url)

\* C9: the set a run writes holds every document of the set it loaded, and
\* whatever it adds is a link of this run's listing.
C9_SeenGrowsMonotonically ==
    /\ seen \subseteq new_seen
    /\ writes = 1 =>
          /\ Stored(store0) \subseteq Stored(store)
          /\ (Stored(store) \ Stored(store0)) \subseteq Range(pdfs)

\* a run that loaded a non-empty set and wrote a larger one
C9_Witness ==
    /\ writes = 1
    /\ Stored(store0) # {}
    /\ Stored(store) # Stored(store0)

---------------------------------------------------------------------------
(* Properties of the extractor *)

\* the maximal runs of word characters of a string, from position p, the run
\* in progress being w
RECURSIVE WordsFrom(_, _, _)
WordsFrom(s, p, w) ==
    IF p > Len(s) THEN (IF w = <<>> THEN {} ELSE {w})
    ELSE IF IsWordChar(s[p]) THEN WordsFrom(s, p + 1, Append(w, s[p]))
    ELSE (IF w = <<>> THEN {} ELSE {w}) \cup WordsFrom(s, p + 1, <<>>)

WordsOf(s) == WordsFrom(s, 1, <<>>)

\* the marker as a word of its own
HasMarkerWord(line) == Marker \in WordsOf(Upper(line))

\* two or three capitals, dmin to four digits, an optional capital
ShapedWith(w, dmin) ==
    \E nl \in 2..3, nd \in dmin..4, o \in 0..1 :
        /\ Len(w) = nl + nd + o
        /\ \A k \in 1..nl : w[k] \in UpperLetters
        /\ \A k \in (nl + 1)..(nl + nd) : w[k] \in Digits
        /\ \A k \in (nl + nd + 1)..Len(w) : w[k] \in UpperLetters

Near(i, j) == i - j <= 2 /\ j - i <= 2

\* every word near a marker line that has the shape, with at least dmin
\* digits, is in the result
WindowComplete(dmin) ==
    \A p \in 1..Len(doc.pages) :
        \A i, j \in 1..Len(doc.pages[p]) :
            (HasMarkerWord(doc.pages[p][i]) /\ Near(i, j)) =>
                \A w \in WordsOf(doc.pages[p][j]) :
                    ShapedWith(w, dmin) => w \in callsigns

\* every callsign of the result is near a line that holds the marker as a word
WindowsOnlyAtMarkerWords ==
    \A c \in callsigns :
        \E p \in 1..Len(doc.pages) :
            \E i, j \in 1..Len(doc.pages[p]) :
                /\ HasMarkerWord(doc.pages[p][i])
                /\ Near(i, j)
                /\ c \in WordsOf(doc.pages[p][j])

\* C7: every callsign-shaped word on a line at most two lines from a line of
\* the same page that holds VIDP as a word is in the result of
\* extract_callsigns_from_pdf_bytes (src/vidp_alert.py).
C7_WindowCallsignsFound ==
    (epc = "returned" /\ copy = "root") => WindowComplete(1)

\* What the code does instead: it finds the words with two to four digits.
TwoDigitCallsignsFound ==
    (epc = "returned" /\ copy = "root") => WindowComplete(2)

\* the same of the workflow copy of the script
C7_InWorkflowCopy ==
    (epc = "returned" /\ copy = "workflow") => WindowComplete(1)

\* C8: every callsign of the result lies at most two lines from a line of
\* its page that holds VIDP as a word; a line that holds VIDP only inside a
\* longer word opens no window (src/vidp_alert.py).
C8_WholeWordMarkerOnly ==
    (epc = "returned" /\ copy = "root") => WindowsOnlyAtMarkerWords

\* the same of the workflow copy of the script
C8_InWorkflowCopy ==
    (epc = "returned" /\ copy = "workflow") => WindowsOnlyAtMarkerWords

---------------------------------------------------------------------------
(* Properties of the store *)

\* C10: load_seen after save_seen(S) returns S; save_seen(load_seen())
\* leaves the stored set as it was; load_seen never raises and returns the
\* empty set for an absent or unparsable file.
C10_StoreRoundTrips ==
    /\ spc = "saved_loaded" => ~sret.raised /\ sret.value = sarg
    /\ spc = "loaded" =>
          /\ ~sret.raised
          /\ store.kind \in {"missing", "corrupt"} => sret.value = {}
    /\ spc = "resaved" =>
          /\ store.kind = "list"
          /\ Stored(store) = Stored(sprev)

\* an unsorted file with a repeat was loaded and written back
C10_Witness ==
    /\ spc = "resaved"
    /\ sprev.kind = "list"
    /\ store # sprev
    /\ Cardinality(Stored(store)) >= 2
    /\ Len(sprev.items) > Cardinality(Stored(sprev))

=============================================================================
